---- MODULE Spec2Model ----
(***************************************************************************)
(* pondside.telemetry: the one-time OpenTelemetry setup routine init, the  *)
(* tracer accessor get_tracer, and the script test_telemetry.py that logs  *)
(* inside and outside a span.                                              *)
(*                                                                         *)
(* init is modelled statement by statement (the program counter of a call  *)
(* is the source line it is about to execute), so that a library call that *)
(* raises and two threads that interleave are both behaviours of the       *)
(* model.  The registries of the telemetry library and the handler list of *)
(* the root logger are modelled as the sequence of objects handed to them. *)
(***************************************************************************)
EXTENDS Naturals, Sequences, FiniteSets, TLC

\* ------------------------------------------------------------------ bounds
\* How many library calls inside init may raise in one behaviour.
MaxRaises == 1
\* How deeply spans may nest on one thread.
MaxSpanDepth == 1

\* --------------------------------------------------------------- constants
\* logging.DEBUG, logging.INFO, logging.WARNING
DEBUG == 10
INFO == 20
WARNING == 30

Threads == {"main", "worker"}
MainThread == "main"

\* Service names passed to init.
ServiceNames == {"svc-a", "svc-b"}
\* Values of OTEL_EXPORTER_OTLP_ENDPOINT: a set holding the string, the empty
\* set when the variable is absent (os.environ.get then returns None).
None == {}
EnvValues == {None, {""}, {"http://c1"}, {"http://c2"}}
\* Tracer names passed to get_tracer.
DefaultTracerName == "pondside"
TracerNames == {DefaultTracerName, "other"}
SpanNames == {"test-span"}
\* Levels the application logs at.
LogLevels == {INFO, WARNING}
\* The level of the root logger, logging.getLogger(): init attaches a handler to
\* it and leaves its level as the logging module creates it.
RootLevel == WARNING

VARIABLES
    _initialized,     \* the module-level flag
    environ,          \* the value of OTEL_EXPORTER_OTLP_ENDPOINT
    tracer_registry,  \* providers handed to trace.set_tracer_provider, in order
    logger_registry,  \* providers handed to set_logger_provider, in order
    root_handlers,    \* logging.getLogger().handlers
    frame,            \* per thread: the locals of its init call and its pc
    tracer,           \* per thread: what its last get_tracer call returned
    current_span,     \* per thread: the stack of active spans
    last_log,         \* the last log statement issued and what it exported
    at_call,          \* per thread: the globals as they were when init was called
    outcome,          \* per thread: how its last init call ended
    raised,           \* number of library calls that raised
    env_reads,        \* number of reads of the environment variable
    config_runs       \* number of times the configuration block was entered

vars == <<_initialized, environ, tracer_registry, logger_registry, root_handlers,
          frame, tracer, current_span, last_log, at_call, outcome,
          raised, env_reads, config_runs>>

globals == <<_initialized, tracer_registry, logger_registry, root_handlers>>
app == <<tracer, current_span, last_log>>

\* ----------------------------------------------------------------- helpers
Idle == [pc |-> "idle"]
NoCall == [none |-> TRUE]
NoLog == [issued |-> FALSE]

\* A local variable is bound by assignment.
Bind(f, k, v) == [x \in DOMAIN f \cup {k} |-> IF x = k THEN v ELSE f[x]]

\* Variant: only an absent variable counts (if endpoint is None).
Falsy_NoneOnly(v) == v = None
\* Python truthiness of os.environ.get's result: None and "" are falsy.
Falsy(v) == v = None \/ v = {""}
Str(v) == CHOOSE s \in v : TRUE

Snapshot == [initialized |-> _initialized, tracer_registry |-> tracer_registry,
             logger_registry |-> logger_registry, root_handlers |-> root_handlers]

Init ==
    /\ _initialized = FALSE
    /\ environ \in EnvValues
    /\ tracer_registry = <<>>
    /\ logger_registry = <<>>
    /\ root_handlers = <<>>
    /\ frame = [t \in Threads |-> Idle]
    /\ tracer = [t \in Threads |-> None]
    /\ current_span = [t \in Threads |-> <<>>]
    /\ last_log = NoLog
    /\ at_call = [t \in Threads |-> NoCall]
    /\ outcome = [t \in Threads |-> "none"]
    /\ raised = 0
    /\ env_reads = 0
    /\ config_runs = 0

\* A step of thread t's init call: the frame moves to f, the rest is given.
Goto(t, f) == frame' = [frame EXCEPT ![t] = f]
At(t, line) == frame[t].pc = line
Step(t, line, k, v) == Goto(t, Bind(Bind(frame[t], k, v), "pc", line))
Return(t, how) ==
    /\ frame' = [frame EXCEPT ![t] = Idle]
    /\ outcome' = [outcome EXCEPT ![t] = how]
    /\ at_call' = [at_call EXCEPT ![t] = NoCall]

\* ------------------------------------------------------------------- init
\* init(service_name) is called.
Call(t, service_name) ==
    /\ At(t, "idle")
    /\ Goto(t, [pc |-> "45", service_name |-> service_name])
    /\ at_call' = [at_call EXCEPT ![t] = Snapshot]
    /\ UNCHANGED <<globals, environ, app, outcome, raised, env_reads, config_runs>>

\* Variant: the guard looks at the registry as well as the flag.
CheckInitialized_ChecksRegistry(t) ==
    /\ At(t, "45")
    /\ IF _initialized /\ tracer_registry # <<>>
         THEN Return(t, "noop")
         ELSE /\ Goto(t, Bind(frame[t], "pc", "49"))
              /\ UNCHANGED <<outcome, at_call>>
    /\ UNCHANGED <<globals, environ, app, raised, env_reads, config_runs>>

\* if _initialized: return
CheckInitialized(t) ==
    /\ At(t, "45")
    /\ IF _initialized
         THEN Return(t, "noop")
         ELSE /\ Goto(t, Bind(frame[t], "pc", "49"))
              /\ UNCHANGED <<outcome, at_call>>
    /\ UNCHANGED <<globals, environ, app, raised, env_reads, config_runs>>

\* endpoint = os.environ.get("OTEL_EXPORTER_OTLP_ENDPOINT")
GetEnv(t) ==
    /\ At(t, "49")
    /\ Step(t, "50", "endpoint", environ)
    /\ env_reads' = env_reads + 1
    /\ UNCHANGED <<globals, environ, app, outcome, at_call, raised, config_runs>>

\* Variant: the flag is set before the configuration block instead of after it.
TestEndpoint_FlagFirst(t) ==
    /\ At(t, "50")
    /\ _initialized' = TRUE
    /\ IF Falsy(frame[t].endpoint)
         THEN /\ Return(t, "disabled")
              /\ UNCHANGED config_runs
         ELSE /\ Goto(t, Bind(frame[t], "pc", "55"))
              /\ config_runs' = config_runs + 1
              /\ UNCHANGED <<outcome, at_call>>
    /\ UNCHANGED <<tracer_registry, logger_registry, root_handlers, environ, app,
                   raised, env_reads>>

\* if not endpoint: _initialized = True; return
TestEndpoint(t) ==
    /\ At(t, "50")
    /\ IF Falsy(frame[t].endpoint)
         THEN /\ _initialized' = TRUE
              /\ Return(t, "disabled")
              /\ UNCHANGED config_runs
         ELSE /\ Goto(t, Bind(frame[t], "pc", "55"))
              /\ config_runs' = config_runs + 1
              /\ UNCHANGED <<_initialized, outcome, at_call>>
    /\ UNCHANGED <<tracer_registry, logger_registry, root_handlers, environ, app,
                   raised, env_reads>>

Local(t) == UNCHANGED <<globals, environ, app, outcome, at_call, raised, env_reads,
                        config_runs>>

\* resource = Resource.create({SERVICE_NAME: service_name})
ResourceCreate(service_name) == [service_name |-> service_name]
MakeResource(t) ==
    /\ At(t, "55")
    /\ Step(t, "58", "resource", ResourceCreate(frame[t].service_name))
    /\ Local(t)

\* trace_exporter = OTLPSpanExporter(endpoint=f"{endpoint}/v1/traces")
TracesEndpoint(endpoint) == Str(endpoint) \o "/v1/traces"
MakeTraceExporter(t) ==
    /\ At(t, "58")
    /\ Step(t, "61", "trace_exporter", [endpoint |-> TracesEndpoint(frame[t].endpoint)])
    /\ Local(t)

\* span_limits = SpanLimits(...)
SpanLimits == [max_attributes |-> 100000, max_attribute_length |-> 100000,
               max_events |-> 10000, max_links |-> 1000,
               max_event_attributes |-> 10000, max_link_attributes |-> 1000]
MakeSpanLimits(t) ==
    /\ At(t, "61")
    /\ Step(t, "70", "span_limits", SpanLimits)
    /\ Local(t)

\* tracer_provider = TracerProvider(resource=resource, span_limits=span_limits)
MakeTracerProvider(t) ==
    /\ At(t, "70")
    /\ Step(t, "71", "tracer_provider",
            [resource |-> frame[t].resource, span_limits |-> frame[t].span_limits,
             processors |-> <<>>])
    /\ Local(t)

\* tracer_provider.add_span_processor(BatchSpanProcessor(trace_exporter))
AddProcessor(provider, exporter) ==
    [provider EXCEPT !.processors = Append(@, [exporter |-> exporter])]
AddSpanProcessor(t) ==
    /\ At(t, "71")
    /\ Step(t, "72", "tracer_provider",
            AddProcessor(frame[t].tracer_provider, frame[t].trace_exporter))
    /\ Local(t)

\* trace.set_tracer_provider(tracer_provider)
SetTracerProvider(t) ==
    /\ At(t, "72")
    /\ tracer_registry' = Append(tracer_registry, frame[t].tracer_provider)
    /\ Goto(t, Bind(frame[t], "pc", "75"))
    /\ UNCHANGED <<_initialized, logger_registry, root_handlers, environ, app, outcome,
                   at_call, raised, env_reads, config_runs>>

\* Variant: the log exporter is pointed at the traces path.
LogsEndpoint_TracesPath(endpoint) == Str(endpoint) \o "/v1/traces"
\* log_exporter = OTLPLogExporter(endpoint=f"{endpoint}/v1/logs")
LogsEndpoint(endpoint) == Str(endpoint) \o "/v1/logs"
MakeLogExporter(t) ==
    /\ At(t, "75")
    /\ Step(t, "77", "log_exporter", [endpoint |-> LogsEndpoint(frame[t].endpoint)])
    /\ Local(t)

\* logger_provider = LoggerProvider(resource=resource)
MakeLoggerProvider(t) ==
    /\ At(t, "77")
    /\ Step(t, "78", "logger_provider",
            [resource |-> frame[t].resource, processors |-> <<>>])
    /\ Local(t)

\* logger_provider.add_log_record_processor(BatchLogRecordProcessor(log_exporter))
AddLogRecordProcessor(t) ==
    /\ At(t, "78")
    /\ Step(t, "79", "logger_provider",
            AddProcessor(frame[t].logger_provider, frame[t].log_exporter))
    /\ Local(t)

\* set_logger_provider(logger_provider)
SetLoggerProvider(t) ==
    /\ At(t, "79")
    /\ logger_registry' = Append(logger_registry, frame[t].logger_provider)
    /\ Goto(t, Bind(frame[t], "pc", "83"))
    /\ UNCHANGED <<_initialized, tracer_registry, root_handlers, environ, app, outcome,
                   at_call, raised, env_reads, config_runs>>

\* handler = LoggingHandler(level=logging.DEBUG, logger_provider=logger_provider)
LoggingHandler(level, logger_provider) ==
    [level |-> level, logger_provider |-> logger_provider]
MakeHandler(t) ==
    /\ At(t, "83")
    /\ Step(t, "84", "handler", LoggingHandler(DEBUG, frame[t].logger_provider))
    /\ Local(t)

\* Variant: the handler is attached only when the root logger has none.
AddHandler_IfNone(t) ==
    /\ At(t, "84")
    /\ root_handlers' = IF root_handlers = <<>> THEN <<frame[t].handler>> ELSE root_handlers
    /\ Goto(t, Bind(frame[t], "pc", "86"))
    /\ UNCHANGED <<_initialized, tracer_registry, logger_registry, environ, app, outcome,
                   at_call, raised, env_reads, config_runs>>

\* logging.getLogger().addHandler(handler)
AddHandler(t) ==
    /\ At(t, "84")
    /\ root_handlers' = Append(root_handlers, frame[t].handler)
    /\ Goto(t, Bind(frame[t], "pc", "86"))
    /\ UNCHANGED <<_initialized, tracer_registry, logger_registry, environ, app, outcome,
                   at_call, raised, env_reads, config_runs>>

\* _initialized = True, and init returns
SetInitialized(t) ==
    /\ At(t, "86")
    /\ _initialized' = TRUE
    /\ Return(t, "enabled")
    /\ UNCHANGED <<tracer_registry, logger_registry, root_handlers, environ, app, raised,
                   env_reads, config_runs>>

\* The lines of the configuration block that call into the library.  init has no
\* try/except: a call that raises ends init there, with nothing undone.  The
\* call that raises has no effect of its own.
RaisePoints == {"55", "58", "61", "70", "71", "72", "75", "77", "78", "79", "83", "84"}
\* Variant: a failed init clears the flag on its way out.
Raise_ClearsFlag(t) ==
    /\ frame[t].pc \in RaisePoints
    /\ raised < MaxRaises
    /\ raised' = raised + 1
    /\ Return(t, "raised")
    /\ _initialized' = FALSE
    /\ UNCHANGED <<tracer_registry, logger_registry, root_handlers, environ, app,
                   env_reads, config_runs>>

Raise(t) ==
    /\ frame[t].pc \in RaisePoints
    /\ raised < MaxRaises
    /\ raised' = raised + 1
    /\ Return(t, "raised")
    /\ UNCHANGED <<globals, environ, app, env_reads, config_runs>>

\* The steps of init past its call.
InitStep(t) ==
    \/ CheckInitialized(t) \/ GetEnv(t) \/ TestEndpoint(t)
    \/ MakeResource(t) \/ MakeTraceExporter(t) \/ MakeSpanLimits(t)
    \/ MakeTracerProvider(t) \/ AddSpanProcessor(t) \/ SetTracerProvider(t)
    \/ MakeLogExporter(t) \/ MakeLoggerProvider(t) \/ AddLogRecordProcessor(t)
    \/ SetLoggerProvider(t) \/ MakeHandler(t) \/ AddHandler(t) \/ SetInitialized(t)
    \/ Raise(t)

\* ------------------------------------------------------------ environment
\* The process environment is changed (os.environ, between calls).
SetEnv(v) ==
    /\ \A t \in Threads : At(t, "idle")
    /\ environ # v
    /\ environ' = v
    /\ UNCHANGED <<globals, app, frame, at_call, outcome, raised, env_reads, config_runs>>

\* ------------------------------------------------------------- get_tracer
\* Variant: get_tracer marks telemetry initialized on first use.
GetTracer_MarksInitialized(t, name) ==
    /\ At(t, "idle")
    /\ tracer' = [tracer EXCEPT ![t] = {name}]
    /\ _initialized' = TRUE
    /\ UNCHANGED <<tracer_registry, logger_registry, root_handlers, environ, current_span,
                   last_log, frame, at_call, outcome, raised, env_reads, config_runs>>

\* return trace.get_tracer(name)
GetTracer(t, name) ==
    /\ At(t, "idle")
    /\ tracer' = [tracer EXCEPT ![t] = {name}]
    /\ UNCHANGED <<globals, environ, current_span, last_log, frame, at_call,
                   outcome, raised, env_reads, config_runs>>

\* ------------------------------------------------- spans and log statements
init_state == <<globals, environ, frame, at_call, outcome, raised, env_reads, config_runs>>

\* with tracer.start_as_current_span(name): the span becomes the thread's current one
StartSpan(t, name) ==
    /\ At(t, "idle")
    /\ tracer[t] # None
    /\ Len(current_span[t]) < MaxSpanDepth
    /\ current_span' = [current_span EXCEPT ![t] = Append(@, name)]
    /\ UNCHANGED <<init_state, tracer, last_log>>

\* the with block is left: the span ends and the enclosing one is current again
EndSpan(t) ==
    /\ At(t, "idle")
    /\ current_span[t] # <<>>
    /\ current_span' = [current_span EXCEPT ![t] = SubSeq(@, 1, Len(@) - 1)]
    /\ UNCHANGED <<init_state, tracer, last_log>>

\* The span a record is associated with: the thread's current span, if any.
SpanOf(stack) == IF stack = <<>> THEN None ELSE {stack[Len(stack)]}

\* What a log statement at level levelno exports.  The logger is
\* logging.getLogger(__name__), whose level is unset, so the root logger's level
\* decides whether the record is created at all; each handler of the root logger
\* whose own level admits the record then exports it through its provider, with
\* the span current on the issuing thread.
RECURSIVE Emit(_, _, _)
Emit(handlers, levelno, stack) ==
    IF handlers = <<>> THEN <<>>
    ELSE LET h == Head(handlers)
             rest == Emit(Tail(handlers), levelno, stack)
         IN IF levelno >= h.level
              THEN <<[logger_provider |-> h.logger_provider, levelno |-> levelno,
                      span |-> SpanOf(stack)]>> \o rest
              ELSE rest
Exported(levelno, stack) ==
    IF levelno >= RootLevel THEN Emit(root_handlers, levelno, stack) ELSE <<>>

\* Telemetry is configured: an init call went through the whole configuration block.
Configured == _initialized /\ root_handlers # <<>>

\* logger.info(...), logger.warning(...)
Log(t, levelno) ==
    /\ At(t, "idle")
    /\ last_log' = [issued |-> TRUE, levelno |-> levelno, span |-> SpanOf(current_span[t]),
                    configured |-> Configured,
                    exported |-> Exported(levelno, current_span[t])]
    /\ UNCHANGED <<init_state, tracer, current_span>>

\* ---------------------------------------------------------- specification
\* Sequential calls: one thread of control calls init and get_tracer.
Next ==
    \/ \E s \in ServiceNames : Call(MainThread, s)
    \/ InitStep(MainThread)
    \/ \E v \in EnvValues : SetEnv(v)
    \/ \E n \in TracerNames : GetTracer(MainThread, n)

Spec == Init /\ [][Next]_vars

\* The sequential program with its spans and log statements, as in
\* test_telemetry.py.
NextApp ==
    \/ Next
    \/ \E n \in SpanNames : StartSpan(MainThread, n)
    \/ EndSpan(MainThread)
    \/ \E l \in LogLevels : Log(MainThread, l)

SpecApp == Init /\ [][NextApp]_vars

\* Two threads call init with no synchronisation between them; the endpoint is
\* one address or absent, and the main thread calls get_tracer().
ConcEnvValues == {None, {"http://c1"}}
InitConc == Init /\ environ \in ConcEnvValues
NextConc ==
    \/ \E t \in Threads, s \in ServiceNames : Call(t, s)
    \/ \E t \in Threads : InitStep(t)
    \/ \E v \in ConcEnvValues : SetEnv(v)
    \/ GetTracer(MainThread, DefaultTracerName)

SpecConc == InitConc /\ [][NextConc]_vars

\* ================================================================== claims
Last(s) == s[Len(s)]
\* The endpoint variable is unset or empty.
EndpointAbsent == environ \in {None, {""}}
AllIdle == \A t \in Threads : At(t, "idle")
\* Thread t's init call ends in this step.
Returns(t) == frame[t].pc # "idle" /\ frame'[t].pc = "idle"
\* The lines after trace.set_tracer_provider and after set_logger_provider.
AfterTracerRegistration == {"75", "77", "78", "79", "83", "84", "86"}
AfterLoggerRegistration == {"83", "84", "86"}

\* C1: under sequential calls the configuration block runs at most once: the
\* tracer provider and the logger provider are each registered at most once and
\* at most one telemetry handler is attached to the root logger.
C1_ConfiguredAtMostOnce ==
    /\ config_runs <= 1
    /\ Len(tracer_registry) <= 1
    /\ Len(logger_registry) <= 1
    /\ Len(root_handlers) <= 1

\* C2: an init call made with the flag false and the endpoint variable absent or
\* empty registers nothing, attaches no handler, constructs no exporter, and
\* ends by returning normally with the flag set.
C2_DisabledInit ==
    [][\A t \in Threads :
         (at_call[t] # NoCall /\ ~at_call[t].initialized /\ EndpointAbsent) =>
            /\ tracer_registry' = at_call[t].tracer_registry
            /\ logger_registry' = at_call[t].logger_registry
            /\ root_handlers' = at_call[t].root_handlers
            /\ DOMAIN frame'[t] \cap {"trace_exporter", "log_exporter"} = {}
            /\ Returns(t) => (outcome'[t] = "disabled" /\ _initialized')]_vars

C2_Witness ==
    /\ outcome[MainThread] = "disabled"
    /\ environ = {""}
    /\ _initialized
    /\ tracer_registry = <<>> /\ logger_registry = <<>> /\ root_handlers = <<>>

\* C3: an init call made with the flag false and the endpoint set to E, in which
\* no library call raises, ends having registered one tracer provider exporting
\* to E/v1/traces and one logger provider exporting to E/v1/logs, both with the
\* resource of the service name passed, having attached one handler bound to
\* that logger provider, and with the flag set.
C3_EnabledInit ==
    [][\A t \in Threads :
         (Returns(t) /\ ~at_call[t].initialized /\ ~EndpointAbsent
            /\ outcome'[t] # "raised") =>
            /\ Len(tracer_registry') = Len(at_call[t].tracer_registry) + 1
            /\ Len(logger_registry') = Len(at_call[t].logger_registry) + 1
            /\ Len(root_handlers') = Len(at_call[t].root_handlers) + 1
            /\ LET tp == Last(tracer_registry')
                   lp == Last(logger_registry')
                   h == Last(root_handlers')
               IN /\ tracer_registry' = Append(at_call[t].tracer_registry, tp)
                  /\ logger_registry' = Append(at_call[t].logger_registry, lp)
                  /\ root_handlers' = Append(at_call[t].root_handlers, h)
                  /\ tp.processors = <<[exporter |-> [endpoint |-> Str(environ) \o "/v1/traces"]]>>
                  /\ lp.processors = <<[exporter |-> [endpoint |-> Str(environ) \o "/v1/logs"]]>>
                  /\ tp.resource = lp.resource
                  /\ tp.resource.service_name = frame[t].service_name
                  /\ h.logger_provider = lp
            /\ _initialized']_vars

C3_Witness ==
    /\ outcome[MainThread] = "enabled"
    /\ raised = 0
    /\ _initialized
    /\ Len(tracer_registry) = 1 /\ Len(logger_registry) = 1 /\ Len(root_handlers) = 1
    /\ tracer_registry[1].resource.service_name = "svc-b"
    /\ logger_registry[1].processors[1].exporter.endpoint = "http://c2/v1/logs"

\* C4: get_tracer can be called in every state in which the thread is not inside
\* init, returns a handle for the name, and changes neither the flag, nor the
\* registries, nor the root logger's handlers.
C4_GetTracerStateless ==
    /\ [](\A n \in TracerNames :
            At(MainThread, "idle") => ENABLED GetTracer(MainThread, n))
    /\ [][\A t \in Threads :
            tracer'[t] # tracer[t] =>
               /\ \E n \in TracerNames : tracer'[t] = {n}
               /\ UNCHANGED <<_initialized, tracer_registry, logger_registry,
                              root_handlers>>]_vars

C4_Witness ==
    /\ Configured
    /\ tracer[MainThread] = {DefaultTracerName}
    /\ current_span[MainThread] = <<"test-span">>

\* C5: once an init call has configured telemetry, every log statement is
\* exported, associated with the span active on its thread when there is one
\* and with no span when there is none.
C5_LogsExportedWithSpan ==
    (last_log.issued /\ last_log.configured) =>
        /\ last_log.exported # <<>>
        /\ \A i \in DOMAIN last_log.exported : last_log.exported[i].span = last_log.span

\* C6: the flag starts false, and once true it is never false again.
C6_FlagMonotonic ==
    /\ ~_initialized
    /\ [][_initialized => _initialized']_vars

C6_Witness ==
    /\ _initialized
    /\ outcome[MainThread] = "noop"
    /\ tracer[MainThread] # None
    /\ \E t \in Threads : outcome[t] = "raised"

\* The flag was set by the disabled path: no call ever entered the
\* configuration block.
Disabled == _initialized /\ config_runs = 0

\* C7: when the first init call found the endpoint absent, the environment has
\* been read exactly once and nothing is registered, and from then on no step
\* reads the environment or registers anything, and every init call returns at
\* the flag check.
C7_DisabledIsSticky ==
    /\ [](Disabled =>
            /\ env_reads = 1
            /\ tracer_registry = <<>> /\ logger_registry = <<>> /\ root_handlers = <<>>)
    /\ [][Disabled =>
            /\ Disabled'
            /\ env_reads' = env_reads
            /\ \A t \in Threads : Returns(t) => outcome'[t] = "noop"]_vars

C7_Witness ==
    /\ Disabled
    /\ ~EndpointAbsent
    /\ outcome[MainThread] = "noop"

\* C8: when two init calls have both gone through the whole configuration block
\* with no library call raising (which takes two threads that both read the
\* flag as false), each registry has received two providers and the root logger
\* has two telemetry handlers, so that a log record is exported twice.
C8_RaceDuplicates ==
    (AllIdle /\ config_runs = 2 /\ raised = 0) =>
        /\ Len(tracer_registry) = 2
        /\ Len(logger_registry) = 2
        /\ Len(root_handlers) = 2
        /\ Len(Exported(WARNING, <<>>)) = 2

C8_Witness ==
    /\ \A t \in Threads : outcome[t] = "enabled"
    /\ raised = 0
    /\ Len(tracer_registry) = 2 /\ Len(logger_registry) = 2
    /\ Len(root_handlers) = 2

\* C9: when a library call inside init raises, init ends there with the flag
\* still false and with exactly the registrations made before the failing line
\* kept.
C9_RaiseKeepsPartialState ==
    [][\A t \in Threads :
         (Returns(t) /\ outcome'[t] = "raised") =>
            /\ ~_initialized'
            /\ tracer_registry' = at_call[t].tracer_registry \o
                 (IF frame[t].pc \in AfterTracerRegistration
                    THEN <<frame[t].tracer_provider>> ELSE <<>>)
            /\ logger_registry' = at_call[t].logger_registry \o
                 (IF frame[t].pc \in AfterLoggerRegistration
                    THEN <<frame[t].logger_provider>> ELSE <<>>)
            /\ root_handlers' = at_call[t].root_handlers]_vars

\* A later call ran the block again and registered a second tracer provider.
C9_Witness ==
    /\ raised = 1
    /\ config_runs = 2
    /\ Len(tracer_registry) = 2
    /\ outcome[MainThread] = "enabled"

\* C10: whenever the flag is true, either none of the tracer provider, the
\* logger provider and the handler has been registered, or all three have.
C10_AllOrNothing ==
    _initialized =>
        \/ tracer_registry = <<>> /\ logger_registry = <<>> /\ root_handlers = <<>>
        \/ tracer_registry # <<>> /\ logger_registry # <<>> /\ root_handlers # <<>>
====
